---- MODULE Spec2Model ----
(***************************************************************************)
(* Model of src/tauri-app/src-tauri/src/ai_client.rs: the streaming chat   *)
(* completion client (stream_chat_completion) with its SSE reassembly.     *)
(*                                                                         *)
(* Text is modelled as a sequence of one-character strings, the response   *)
(* body as a sequence of bytes.  An ASCII byte is written as its own       *)
(* character; "xD0" and "x9F" are the two bytes of the UTF-8 encoding of   *)
(* U+041F, the one non-ASCII character of the model.                       *)
(***************************************************************************)
EXTENDS Naturals, Sequences, FiniteSets, TLC

(***************************************************************************)
(* Bounds of the model.                                                    *)
(***************************************************************************)
\* the largest number of SSE events in a generated response body
MaxEvents == 2
\* the largest network chunk, in bytes, short of "all the rest at once"
MaxChunk == 3
\* the longest data list of a models response
MaxModels == 3
\* the most pieces a generated text is made of
MaxPieces == 4

(***************************************************************************)
(* Literals of the source and of the wire format.                          *)
(***************************************************************************)
\* "data: " (line 143)
DataPrefix ==
    <<"d", "a", "t", "a", ":", " ">>
\* "[DONE]" (line 144)
DoneToken ==
    <<"[", "D", "O", "N", "E", "]">>
\* "\n\n" (line 138)
Delimiter ==
    <<"\n", "\n">>
\* the JSON shape StreamChunk / StreamChoice / StreamDelta deserialize from
ChoicesOpen ==
    <<"{", "\"", "c", "h", "o", "i", "c", "e", "s", "\"", ":", "[">>
ChoicesClose ==
    <<"]", "}">>
DeltaOpen ==
    <<"{", "\"", "d", "e", "l", "t", "a", "\"", ":", "{">>
DeltaClose ==
    <<"}", "}">>
ContentNull ==
    <<"\"", "c", "o", "n", "t", "e", "n", "t", "\"", ":", "n", "u", "l", "l">>
ContentOpen ==
    <<"\"", "c", "o", "n", "t", "e", "n", "t", "\"", ":", "\"">>
ContentClose ==
    <<"\"">>
\* "/chat/completions" (line 69)
ChatPath ==
    <<"/", "c", "h", "a", "t", "/", "c", "o", "m", "p", "l", "e", "t", "i", "o", "n", "s">>
\* "Bearer " (line 94)
BearerPrefix ==
    <<"B", "e", "a", "r", "e", "r", " ">>

(***************************************************************************)
(* Option<T> and Result<T, E>.                                             *)
(***************************************************************************)
None == [some |-> FALSE]
Some(v) == [some |-> TRUE, val |-> v]
Ok(v) == [tag |-> "Ok", val |-> v]
Err(e) == [tag |-> "Err", val |-> e]
\* the call has not returned yet
NoResult == [tag |-> "none"]

(***************************************************************************)
(* String operations of the standard library, as the code uses them.       *)
(***************************************************************************)
Min(S) == CHOOSE m \in S : \A n \in S : m <= n

StartsWith(s, p) == Len(s) >= Len(p) /\ SubSeq(s, 1, Len(p)) = p

EndsWith(s, p) == Len(s) >= Len(p) /\ SubSeq(s, Len(s) - Len(p) + 1, Len(s)) = p

\* str::find(pat): the 1-based index of the first occurrence, 0 for None
Find(s, pat) ==
    LET hits == {i \in 1..(Len(s) + 1 - Len(pat)) : SubSeq(s, i, i + Len(pat) - 1) = pat}
    IN  IF Len(s) < Len(pat) \/ hits = {} THEN 0 ELSE Min(hits)

\* str::strip_prefix(p)
StripPrefix(s, p) ==
    IF StartsWith(s, p) THEN Some(SubSeq(s, Len(p) + 1, Len(s))) ELSE None

\* str::lines(): split at "\n"; a line ended by "\n" also loses one "\r"
\* before it; no empty last line after a final "\n"
StripLineEnd(l) ==
    IF Len(l) > 0 /\ l[Len(l)] = "\r" THEN SubSeq(l, 1, Len(l) - 1) ELSE l

Lines(s) ==
    LET ends == {i \in 1..Len(s) : s[i] = "\n"}
                \cup (IF s # <<>> /\ s[Len(s)] # "\n" THEN {Len(s) + 1} ELSE {})
        line(e) ==
            LET before == {x \in ends : x < e}
                from == IF before = {} THEN 1
                        ELSE (CHOOSE x \in before : \A y \in before : y <= x) + 1
            IN  IF e <= Len(s) THEN StripLineEnd(SubSeq(s, from, e - 1))
                ELSE SubSeq(s, from, e - 1)
    IN  [k \in 1..Cardinality(ends) |->
            line(CHOOSE e \in ends : Cardinality({x \in ends : x <= e}) = k)]

\* String::from_utf8_lossy over the bytes of the model: a complete
\* two-byte sequence is its character, every byte that is part of no
\* complete sequence becomes U+FFFD
IsAscii(b) == b \notin {"xD0", "x9F"}

\* what the byte at position i contributes: "" for the second byte of a
\* complete sequence, which its first byte has decoded
DecodedAt(bytes, i) ==
    IF IsAscii(bytes[i]) THEN bytes[i]
    ELSE IF bytes[i] = "xD0" /\ i < Len(bytes) /\ bytes[i + 1] = "x9F" THEN "U+041F"
    ELSE IF bytes[i] = "x9F" /\ i > 1 /\ bytes[i - 1] = "xD0" THEN ""
    ELSE "U+FFFD"

from_utf8_lossy(bytes) ==
    SelectSeq([i \in 1..Len(bytes) |-> DecodedAt(bytes, i)], LAMBDA ch : ch # "")

(***************************************************************************)
(* serde_json::from_str::<StreamChunk> on the payload texts of the model:  *)
(* compact JSON with at most one choice and no escapes in the content.     *)
(* Every other text of the model's inputs is not a StreamChunk and is an   *)
(* error for serde too.                                                    *)
(***************************************************************************)
Between(s, open, close) == SubSeq(s, Len(open) + 1, Len(s) - Len(close))

Wrapped(s, open, close) ==
    Len(s) >= Len(open) + Len(close) /\ StartsWith(s, open) /\ EndsWith(s, close)

\* StreamDelta: content is an Option, absent and null are both None
ParseStreamDelta(s) ==
    IF s = <<>> \/ s = ContentNull THEN Ok([content |-> None])
    ELSE IF /\ Wrapped(s, ContentOpen, ContentClose)
            /\ \A i \in 1..Len(Between(s, ContentOpen, ContentClose)) :
                   Between(s, ContentOpen, ContentClose)[i] \notin {"\"", "\\", "\n", "\r"}
         THEN Ok([content |-> Some(Between(s, ContentOpen, ContentClose))])
    ELSE Err("json")

\* StreamChoice
ParseStreamChoice(s) ==
    IF Wrapped(s, DeltaOpen, DeltaClose)
    THEN LET d == ParseStreamDelta(Between(s, DeltaOpen, DeltaClose))
         IN  IF d.tag = "Ok" THEN Ok([delta |-> d.val]) ELSE d
    ELSE Err("json")

\* StreamChunk
ParseStreamChunk(data) ==
    IF Wrapped(data, ChoicesOpen, ChoicesClose)
    THEN LET inner == Between(data, ChoicesOpen, ChoicesClose)
         IN  IF inner = <<>> THEN Ok([choices |-> <<>>])
             ELSE LET c == ParseStreamChoice(inner)
                  IN  IF c.tag = "Ok" THEN Ok([choices |-> <<c.val>>]) ELSE c
    ELSE Err("json")

\* lines 143-155: what one line of an event does
\*   "done"  the payload is [DONE]
\*   "delta" a parsed chunk whose first choice has a content (val)
\*   "skip"  anything else
LineEffect(line) ==
    LET data == StripPrefix(line, DataPrefix)
    IN  IF ~data.some THEN [kind |-> "skip"]
        ELSE IF data.val = DoneToken THEN [kind |-> "done"]
        ELSE LET chunk == ParseStreamChunk(data.val)
             IN  IF chunk.tag # "Ok" THEN [kind |-> "skip"]
                 ELSE IF chunk.val.choices = <<>> THEN [kind |-> "skip"]
                 ELSE IF ~chunk.val.choices[1].delta.content.some THEN [kind |-> "skip"]
                 ELSE [kind |-> "delta", val |-> chunk.val.choices[1].delta.content.val]

(***************************************************************************)
(* Inputs: caller messages, profiles, response bodies.                     *)
(***************************************************************************)
Calls == {"call"}

\* SYSTEM_PROMPT (lines 45-54), as one token
SYSTEM_PROMPT == <<"SYSTEM_PROMPT">>

\* Vec<ApiMessage> arguments
MessageLists ==
    { <<>>,
      <<[role |-> "user", content |-> <<"q">>]>>,
      <<[role |-> "system", content |-> <<"s">>], [role |-> "user", content |-> <<"q">>]>> }

\* the profiles get_active_profile() can return; get_api_key() and
\* get_base_url() read the fields
ApiKeys == { <<>>, <<"s", "k", "-", "1">>, <<"s", "k", "\n", "1">> }

Profiles ==
    [ provider : {"OpenAI", "OpenRouter"},
      api_key : ApiKeys,
      base_url : { <<"h", "t", "t", "p", ":", "/", "/", "h", "/", "v", "1">> },
      model : { <<"m">> },
      temperature : { <<"0", ".", "7">> },
      max_tokens : { 4096 } ]

\* the text of an SSE event whose data line carries a delta with content c
DeltaJson(c) ==
    ChoicesOpen \o DeltaOpen \o ContentOpen \o c \o ContentClose \o DeltaClose \o ChoicesClose

EvHello == DataPrefix \o DeltaJson(<<"H", "e", "l", "l", "o">>)

EvWorld == DataPrefix \o DeltaJson(<<" ", "w", "o", "r", "l", "d">>)

EvDone == DataPrefix \o DoneToken

\* lines that carry no content: a field other than data (ended by CR LF),
\* a payload that is no JSON, a chunk with no choice, a null content
EvMalformed ==
    <<"i", "d", ":", " ", "1", "\r", "\n">>
    \o DataPrefix \o <<"o", "o", "p", "s", "\n">>
    \o DataPrefix \o ChoicesOpen \o ChoicesClose \o <<"\n">>
    \o DataPrefix \o ChoicesOpen \o DeltaOpen \o ContentNull \o DeltaClose \o ChoicesClose

\* one event of four lines: no JSON, a delta, [DONE], another delta
EvMixed ==
    DataPrefix \o <<"o", "o", "p", "s", "\n">>
    \o DataPrefix \o DeltaJson(<<"!">>) \o <<"\n">>
    \o EvDone \o <<"\n">>
    \o DataPrefix \o DeltaJson(<<"?">>)

\* a delta whose content is the two-byte character U+041F
EvUtf == DataPrefix \o DeltaJson(<<"xD0", "x9F">>)

Frames == {EvHello, EvWorld, EvDone, EvMalformed, EvMixed, EvUtf}

RECURSIVE BodiesOfLen(_)
BodiesOfLen(n) ==
    IF n = 0 THEN { <<>> }
    ELSE { b \o f \o Delimiter : b \in BodiesOfLen(n - 1), f \in Frames }

\* the three events Hello, world, [DONE]
HelloWorldBody ==
    EvHello \o Delimiter \o EvWorld \o Delimiter \o EvDone \o Delimiter

\* bodies beyond the generated ones: HelloWorldBody; a delimited event
\* followed by an undelimited [DONE]
ExtraBodies ==
    { HelloWorldBody, EvHello \o Delimiter \o EvDone \o <<"\n">> }

Bodies == UNION { BodiesOfLen(n) : n \in 0..MaxEvents } \cup ExtraBodies

\* the body of an error response
ErrorBodies == { <<"u", "n", "a", "u", "t", "h", "o", "r", "i", "z", "e", "d">> }

Statuses == {200, 401, 500}

\* StatusCode::is_success
IsSuccess(status) == status \in 200..299

\* Display of a StatusCode
StatusText(status) ==
    CASE status = 200 -> "200 OK"
      [] status = 401 -> "401 Unauthorized"
      [] status = 500 -> "500 Internal Server Error"

\* the responses a server can give: a success with an SSE body, an error
\* with a body that can or cannot be read
Responses ==
    [status : {s \in Statuses : IsSuccess(s)}, body : Bodies, readable : {TRUE}]
    \cup [status : {s \in Statuses : ~IsSuccess(s)}, body : ErrorBodies, readable : BOOLEAN]

NoRequest == [sent |-> FALSE]
NoResponse == [status |-> 0]

\* fetch_models and extract_bsl_code have not been called
NoFetch ==
    [pc |-> "idle", profile |-> None, request |-> NoRequest,
     response |-> NoResponse, result |-> NoResult]
NoExtract == [pc |-> "idle", text |-> <<>>, blocks |-> <<>>, start_pos |-> 0]

(***************************************************************************)
(* Request building, lines 69-109.                                         *)
(***************************************************************************)
\* HeaderValue::from_str: control characters are rejected
HeaderValueFromStr(s) ==
    IF \A i \in 1..Len(s) : s[i] \notin {"\n", "\r"}
    THEN Ok(s) ELSE Err(<<"failed to parse header value">>)

\* HeaderMap::insert
Insert(h, name, value) ==
    [n \in DOMAIN h \cup {name} |-> IF n = name THEN value ELSE h[n]]

\* lines 88-109, given that the Authorization value is valid
BuildHeaders(profile) ==
    LET h0 == [n \in {"content-type"} |-> <<"application/json">>]
        h1 == IF profile.api_key # <<>>
              THEN Insert(h0, "authorization", BearerPrefix \o profile.api_key)
              ELSE h0
    IN  IF profile.provider = "OpenRouter"
        THEN Insert(Insert(h1, "HTTP-Referer", <<"https://mini-ai-1c.local">>),
                    "X-Title", <<"Mini AI 1C Agent">>)
        ELSE h1

\* BuildRequestBody that leaves the system instruction out when the caller
\* brings a system message of its own
BuildRequestBodyOwnSystem(profile, msgs) ==
    [ model |-> profile.model,
      messages |-> IF \E i \in 1..Len(msgs) : msgs[i].role = "system"
                   THEN msgs
                   ELSE <<[role |-> "system", content |-> SYSTEM_PROMPT]>> \o msgs,
      stream |-> TRUE,
      temperature |-> profile.temperature,
      max_tokens |-> profile.max_tokens ]

\* lines 72-85
BuildRequestBody(profile, msgs) ==
    [ model |-> profile.model,
      messages |-> <<[role |-> "system", content |-> SYSTEM_PROMPT]>> \o msgs,
      stream |-> TRUE,
      temperature |-> profile.temperature,
      max_tokens |-> profile.max_tokens ]

(***************************************************************************)
(* State.                                                                  *)
(***************************************************************************)
VARIABLES
    pc,             \* where each call is
    messages,       \* the messages argument of the call
    call_profile,   \* the profile of line 62, while the call still reads it
    request,        \* the HTTP request in flight
    httpRequests,   \* how many HTTP requests the call has sent
    response,       \* the response received: status and whole body
    stream,         \* bytes_stream(): the bytes not yet delivered
    netErr,         \* the connection broke: the next read fails
    buffer,
    received,       \* history: all the text pushed to the buffer so far
    event_lines,    \* event.lines(): the lines of the event still to process
    full_response,
    emit_result,    \* what the last app_handle.emit returned
    sink,           \* the "chat-chunk" events emitted on the app handle
    result,         \* what the call returned
    fetch,          \* the call of fetch_models
    extract         \* the call of extract_bsl_code

vars ==
    << pc, messages, request, httpRequests, response, stream, netErr, buffer,
       received, event_lines, full_response, emit_result, sink, result,
       call_profile, fetch, extract >>

Init ==
    /\ pc = [c \in Calls |-> "idle"]
    /\ messages = [c \in Calls |-> <<>>]
    /\ request = [c \in Calls |-> NoRequest]
    /\ httpRequests = [c \in Calls |-> 0]
    /\ response = [c \in Calls |-> NoResponse]
    /\ stream = [c \in Calls |-> <<>>]
    /\ netErr = [c \in Calls |-> FALSE]
    /\ buffer = [c \in Calls |-> <<>>]
    /\ received = [c \in Calls |-> <<>>]
    /\ event_lines = [c \in Calls |-> <<>>]
    /\ full_response = [c \in Calls |-> <<>>]
    /\ emit_result = [c \in Calls |-> "none"]
    /\ sink = <<>>
    /\ result = [c \in Calls |-> NoResult]
    /\ call_profile = [c \in Calls |-> None]
    /\ fetch = NoFetch
    /\ extract = NoExtract

(***************************************************************************)
(* stream_chat_completion up to the response, lines 58-125.                *)
(***************************************************************************)
\* the call is made (lines 58-61)
Call(c, msgs) ==
    /\ pc[c] = "idle"
    /\ pc' = [pc EXCEPT ![c] = "entered"]
    /\ messages' = [messages EXCEPT ![c] = msgs]
    /\ UNCHANGED << fetch, extract, call_profile, received, request, httpRequests, response, stream, netErr, buffer,
                    event_lines, full_response, emit_result, sink, result >>

\* line 62: get_active_profile() is None
FailNoProfile(c) ==
    /\ pc[c] = "entered"
    /\ pc' = [pc EXCEPT ![c] = "failed"]
    /\ result' = [result EXCEPT ![c] = Err(<<"No active LLM profile">>)]
    /\ UNCHANGED << fetch, extract, call_profile, received, messages, request, httpRequests, response, stream, netErr,
                    buffer, event_lines, full_response, emit_result, sink >>

\* FailHeader that sends the request with no Authorization header instead
FailHeaderOmitted(c, profile) ==
    /\ pc[c] = "entered"
    /\ profile.api_key # <<>>
    /\ HeaderValueFromStr(BearerPrefix \o profile.api_key).tag = "Err"
    /\ request' = [request EXCEPT ![c] =
                      [ sent |-> TRUE,
                        method |-> "POST",
                        url |-> profile.base_url \o ChatPath,
                        headers |-> BuildHeaders([profile EXCEPT !.api_key = <<>>]),
                        body |-> BuildRequestBody(profile, messages[c]) ]]
    /\ httpRequests' = [httpRequests EXCEPT ![c] = @ + 1]
    /\ messages' = [messages EXCEPT ![c] = <<>>]
    /\ call_profile' = [call_profile EXCEPT ![c] = Some(profile)]
    /\ pc' = [pc EXCEPT ![c] = "sending"]
    /\ UNCHANGED << fetch, extract, received, response, stream, netErr, buffer,
                    event_lines, full_response, emit_result, sink, result >>

\* lines 91-97: the Authorization value is no header value
FailHeader(c, profile) ==
    /\ pc[c] = "entered"
    /\ profile.api_key # <<>>
    /\ HeaderValueFromStr(BearerPrefix \o profile.api_key).tag = "Err"
    /\ call_profile' = [call_profile EXCEPT ![c] = Some(profile)]
    /\ pc' = [pc EXCEPT ![c] = "failed"]
    /\ result' = [result EXCEPT ![c] =
                     Err(HeaderValueFromStr(BearerPrefix \o profile.api_key).val)]
    /\ UNCHANGED << fetch, extract, received, messages, request, httpRequests, response, stream, netErr,
                    buffer, event_lines, full_response, emit_result, sink >>

\* lines 62-117: the request is built and sent
SendRequest(c, profile) ==
    /\ pc[c] = "entered"
    /\ profile.api_key # <<>> =>
           HeaderValueFromStr(BearerPrefix \o profile.api_key).tag = "Ok"
    /\ request' = [request EXCEPT ![c] =
                      [ sent |-> TRUE,
                        method |-> "POST",
                        url |-> profile.base_url \o ChatPath,
                        headers |-> BuildHeaders(profile),
                        body |-> BuildRequestBody(profile, messages[c]) ]]
    /\ httpRequests' = [httpRequests EXCEPT ![c] = @ + 1]
    /\ messages' = [messages EXCEPT ![c] = <<>>]
    /\ call_profile' = [call_profile EXCEPT ![c] = Some(profile)]
    /\ pc' = [pc EXCEPT ![c] = "sending"]
    /\ UNCHANGED << fetch, extract, received, response, stream, netErr, buffer, event_lines,
                    full_response, emit_result, sink, result >>

\* SendFailed that builds and sends the request again
SendFailedRetry(c) ==
    /\ pc[c] = "sending"
    /\ messages' = [messages EXCEPT ![c] = Tail(request[c].body.messages)]
    /\ request' = [request EXCEPT ![c] = NoRequest]
    /\ pc' = [pc EXCEPT ![c] = "entered"]
    /\ UNCHANGED << fetch, extract, call_profile, received, httpRequests, response, stream, netErr, buffer,
                    event_lines, full_response, emit_result, sink, result >>

\* lines 117-119: send() fails
SendFailed(c) ==
    /\ pc[c] = "sending"
    /\ request' = [request EXCEPT ![c] = NoRequest]
    /\ call_profile' = [call_profile EXCEPT ![c] = None]
    /\ pc' = [pc EXCEPT ![c] = "failed"]
    /\ result' = [result EXCEPT ![c] = Err(<<"Request failed: ", "reqwest::Error">>)]
    /\ UNCHANGED << fetch, extract, received, messages, httpRequests, response, stream, netErr, buffer,
                    event_lines, full_response, emit_result, sink >>

\* lines 113-118: send() returns the response the server gave
ReceiveResponse(c, resp) ==
    /\ pc[c] = "sending"
    /\ request' = [request EXCEPT ![c] = NoRequest]
    /\ response' = [response EXCEPT ![c] = resp]
    /\ call_profile' = [call_profile EXCEPT ![c] = None]
    /\ pc' = [pc EXCEPT ![c] = "status"]
    /\ UNCHANGED << fetch, extract, received, messages, httpRequests, stream, netErr, buffer,
                    event_lines, full_response, emit_result, sink, result >>

\* StatusError that reports the status alone, as fetch_models does
StatusErrorStatusOnly(c) ==
    /\ pc[c] = "status"
    /\ ~IsSuccess(response[c].status)
    /\ result' = [result EXCEPT ![c] =
           Err(<<"API error ", StatusText(response[c].status)>>)]
    /\ pc' = [pc EXCEPT ![c] = "failed"]
    /\ UNCHANGED << fetch, extract, call_profile, received, messages, request, httpRequests, response, stream, netErr,
                    buffer, event_lines, full_response, emit_result, sink >>

\* lines 121-125: a status that is no success
StatusError(c) ==
    /\ pc[c] = "status"
    /\ ~IsSuccess(response[c].status)
    /\ LET error_body == IF response[c].readable
                         THEN from_utf8_lossy(response[c].body) ELSE <<>>
       IN  result' = [result EXCEPT ![c] =
               Err(<<"API error ", StatusText(response[c].status), ": ">> \o error_body)]
    /\ pc' = [pc EXCEPT ![c] = "failed"]
    /\ UNCHANGED << fetch, extract, call_profile, received, messages, request, httpRequests, response, stream, netErr,
                    buffer, event_lines, full_response, emit_result, sink >>

\* lines 121, 128-130: a success status, the stream is opened
StatusOk(c) ==
    /\ pc[c] = "status"
    /\ IsSuccess(response[c].status)
    /\ stream' = [stream EXCEPT ![c] = response[c].body]
    /\ buffer' = [buffer EXCEPT ![c] = <<>>]
    /\ full_response' = [full_response EXCEPT ![c] = <<>>]
    /\ pc' = [pc EXCEPT ![c] = "read"]
    /\ UNCHANGED << fetch, extract, call_profile, received, messages, request, httpRequests, response, netErr,
                    event_lines, emit_result, sink, result >>

(***************************************************************************)
(* The streaming loop, lines 132-161.                                      *)
(***************************************************************************)
\* the sizes of a network chunk: 1..MaxChunk bytes, or 0 for all the bytes
\* that remain
ChunkSizes == 0..MaxChunk

\* the network: the connection breaks.  Only stream.next() observes it,
\* so it is taken while the call waits for a chunk or after it returned
NetBreak(c) ==
    /\ pc[c] \in {"read", "done"}
    /\ IsSuccess(response[c].status)
    /\ ~netErr[c]
    /\ netErr' = [netErr EXCEPT ![c] = TRUE]
    /\ UNCHANGED << fetch, extract, call_profile, received, pc, messages, request, httpRequests, response, stream, buffer,
                    event_lines, full_response, emit_result, sink, result >>

\* ReadChunk with one buffer shared by all the calls in progress
ReadChunkSharedBuffer(c, n) ==
    /\ pc[c] = "read"
    /\ ~netErr[c]
    /\ stream[c] # <<>>
    /\ n <= Len(stream[c])
    /\ LET len == IF n = 0 THEN Len(stream[c]) ELSE n
           chunk == SubSeq(stream[c], 1, len)
           chunk_str == from_utf8_lossy(chunk)
       IN  /\ buffer' = [d \in DOMAIN buffer |-> buffer[d] \o chunk_str]
           /\ received' = [received EXCEPT ![c] = @ \o chunk_str]
           /\ stream' = [stream EXCEPT ![c] = SubSeq(@, len + 1, Len(@))]
    /\ pc' = [pc EXCEPT ![c] = "extract"]
    /\ UNCHANGED << fetch, extract, call_profile, messages, request, httpRequests, response, netErr,
                    event_lines, full_response, emit_result, sink, result >>

\* lines 132-135: stream.next() yields a chunk of n bytes (all, if n = 0)
ReadChunk(c, n) ==
    /\ pc[c] = "read"
    /\ ~netErr[c]
    /\ stream[c] # <<>>
    /\ n <= Len(stream[c])
    /\ LET len == IF n = 0 THEN Len(stream[c]) ELSE n
           chunk == SubSeq(stream[c], 1, len)
           chunk_str == from_utf8_lossy(chunk)
       IN  /\ buffer' = [buffer EXCEPT ![c] = @ \o chunk_str]
           /\ received' = [received EXCEPT ![c] = @ \o chunk_str]
           /\ stream' = [stream EXCEPT ![c] = SubSeq(@, len + 1, Len(@))]
    /\ pc' = [pc EXCEPT ![c] = "extract"]
    /\ UNCHANGED << fetch, extract, call_profile, messages, request, httpRequests, response, netErr,
                    event_lines, full_response, emit_result, sink, result >>

\* ReadError that ends the loop and returns the text accumulated so far
ReadErrorPartial(c) ==
    /\ pc[c] = "read"
    /\ netErr[c]
    /\ pc' = [pc EXCEPT ![c] = "done"]
    /\ result' = [result EXCEPT ![c] = Ok(full_response[c])]
    /\ UNCHANGED << fetch, extract, call_profile, received, messages, request, httpRequests, response, stream, netErr,
                    buffer, event_lines, full_response, emit_result, sink >>

\* lines 132-133: stream.next() yields an error
ReadError(c) ==
    /\ pc[c] = "read"
    /\ netErr[c]
    /\ pc' = [pc EXCEPT ![c] = "aborted"]
    /\ result' = [result EXCEPT ![c] = Err(<<"Stream error: ", "reqwest::Error">>)]
    /\ UNCHANGED << fetch, extract, call_profile, received, messages, request, httpRequests, response, stream, netErr,
                    buffer, event_lines, full_response, emit_result, sink >>

\* ReadEof that processes the first line left in the buffer before it
\* returns
ReadEofFlushes(c) ==
    /\ pc[c] = "read"
    /\ ~netErr[c]
    /\ stream[c] = <<>>
    /\ LET ls == Lines(buffer[c])
           text == IF ls # <<>> /\ LineEffect(ls[1]).kind = "delta"
                   THEN full_response[c] \o LineEffect(ls[1]).val
                   ELSE full_response[c]
       IN  /\ full_response' = [full_response EXCEPT ![c] = text]
           /\ result' = [result EXCEPT ![c] = Ok(text)]
    /\ pc' = [pc EXCEPT ![c] = "done"]
    /\ UNCHANGED << fetch, extract, call_profile, received, messages, request,
                    httpRequests, response, stream, netErr, buffer, event_lines,
                    emit_result, sink >>

\* ReadEof that takes the end of a stream without [DONE] for a failure
ReadEofStrict(c) ==
    /\ pc[c] = "read"
    /\ ~netErr[c]
    /\ stream[c] = <<>>
    /\ pc' = [pc EXCEPT ![c] = "aborted"]
    /\ result' = [result EXCEPT ![c] = Err(<<"Stream error: ", "unexpected end of stream">>)]
    /\ UNCHANGED << fetch, extract, call_profile, received, messages, request, httpRequests, response, stream, netErr,
                    buffer, event_lines, full_response, emit_result, sink >>

\* lines 132, 161: stream.next() yields None, the stream has ended
ReadEof(c) ==
    /\ pc[c] = "read"
    /\ ~netErr[c]
    /\ stream[c] = <<>>
    /\ pc' = [pc EXCEPT ![c] = "done"]
    /\ result' = [result EXCEPT ![c] = Ok(full_response[c])]
    /\ UNCHANGED << fetch, extract, call_profile, received, messages, request, httpRequests, response, stream, netErr,
                    buffer, event_lines, full_response, emit_result, sink >>

\* ExtractEvent that leaves the event and its delimiter in the buffer
ExtractEventKeepsBuffer(c) ==
    /\ pc[c] = "extract"
    /\ Find(buffer[c], Delimiter) # 0
    /\ \E pos \in {Find(buffer[c], Delimiter) - 1} :
           \E event \in {SubSeq(buffer[c], 1, pos)} :
               event_lines' = [event_lines EXCEPT ![c] = Lines(event)]
    /\ pc' = [pc EXCEPT ![c] = "lines"]
    /\ UNCHANGED << fetch, extract, call_profile, received, messages, request,
                    httpRequests, response, stream, netErr, buffer,
                    full_response, emit_result, sink, result >>

\* lines 138-142: the buffer holds a delimiter, the event before it is cut off
ExtractEvent(c) ==
    /\ pc[c] = "extract"
    /\ Find(buffer[c], Delimiter) # 0
    /\ \E pos \in {Find(buffer[c], Delimiter) - 1} :
           \E event \in {SubSeq(buffer[c], 1, pos)} :
               /\ buffer' = [buffer EXCEPT ![c] = SubSeq(@, pos + 2 + 1, Len(@))]
               /\ event_lines' = [event_lines EXCEPT ![c] = Lines(event)]
    /\ pc' = [pc EXCEPT ![c] = "lines"]
    /\ UNCHANGED << fetch, extract, call_profile, received, messages, request, httpRequests, response, stream, netErr,
                    full_response, emit_result, sink, result >>

\* line 138: no delimiter in the buffer, back to the read
NoEvent(c) ==
    /\ pc[c] = "extract"
    /\ Find(buffer[c], Delimiter) = 0
    /\ pc' = [pc EXCEPT ![c] = "read"]
    /\ UNCHANGED << fetch, extract, call_profile, received, messages, request, httpRequests, response, stream, netErr,
                    buffer, event_lines, full_response, emit_result, sink, result >>

\* LineDone with a break in place of the return: [DONE] only ends the
\* lines of its event
LineDoneBreak(c) ==
    /\ pc[c] = "lines"
    /\ event_lines[c] # <<>>
    /\ LineEffect(Head(event_lines[c])).kind = "done"
    /\ event_lines' = [event_lines EXCEPT ![c] = <<>>]
    /\ UNCHANGED << fetch, extract, call_profile, received, pc, messages, request, httpRequests, response, stream,
                    netErr, buffer, full_response, emit_result, sink, result >>

\* lines 143-146: the line is data: [DONE]
LineDone(c) ==
    /\ pc[c] = "lines"
    /\ event_lines[c] # <<>>
    /\ LineEffect(Head(event_lines[c])).kind = "done"
    /\ pc' = [pc EXCEPT ![c] = "done"]
    /\ result' = [result EXCEPT ![c] = Ok(full_response[c])]
    /\ UNCHANGED << fetch, extract, call_profile, received, messages, request, httpRequests, response, stream, netErr,
                    buffer, event_lines, full_response, emit_result, sink >>

\* LineDelta that emits the content and forgets to accumulate it
LineDeltaEmitOnly(c, emitted) ==
    /\ pc[c] = "lines"
    /\ event_lines[c] # <<>>
    /\ LineEffect(Head(event_lines[c])).kind = "delta"
    /\ LET content == LineEffect(Head(event_lines[c])).val
       IN  sink' = Append(sink, [call |-> c, event |-> "chat-chunk", payload |-> content])
    /\ emit_result' = [emit_result EXCEPT ![c] = emitted]
    /\ event_lines' = [event_lines EXCEPT ![c] = Tail(@)]
    /\ UNCHANGED << fetch, extract, call_profile, received, pc, messages, request, httpRequests, response, stream,
                    netErr, buffer, full_response, result >>

\* LineDelta that propagates a failure of emit
LineDeltaFatalEmit(c, emitted) ==
    /\ pc[c] = "lines"
    /\ event_lines[c] # <<>>
    /\ LineEffect(Head(event_lines[c])).kind = "delta"
    /\ LET content == LineEffect(Head(event_lines[c])).val
       IN  /\ full_response' = [full_response EXCEPT ![c] = @ \o content]
           /\ sink' = Append(sink, [call |-> c, event |-> "chat-chunk", payload |-> content])
    /\ emit_result' = [emit_result EXCEPT ![c] = emitted]
    /\ event_lines' = [event_lines EXCEPT ![c] = Tail(@)]
    /\ pc' = [pc EXCEPT ![c] = IF emitted = "Err" THEN "aborted" ELSE @]
    /\ result' = [result EXCEPT ![c] =
                     IF emitted = "Err" THEN Err(<<"Emit error: ", "tauri::Error">>) ELSE @]
    /\ UNCHANGED << fetch, extract, call_profile, received, messages, request, httpRequests, response, stream,
                    netErr, buffer >>

\* lines 148-153: the line carries a content; emit returns Ok or Err
LineDelta(c, emitted) ==
    /\ pc[c] = "lines"
    /\ event_lines[c] # <<>>
    /\ LineEffect(Head(event_lines[c])).kind = "delta"
    /\ LET content == LineEffect(Head(event_lines[c])).val
       IN  /\ full_response' = [full_response EXCEPT ![c] = @ \o content]
           /\ sink' = Append(sink, [call |-> c, event |-> "chat-chunk", payload |-> content])
    /\ emit_result' = [emit_result EXCEPT ![c] = emitted]
    /\ event_lines' = [event_lines EXCEPT ![c] = Tail(@)]
    /\ UNCHANGED << fetch, extract, call_profile, received, pc, messages, request, httpRequests, response, stream, netErr,
                    buffer, result >>

\* LineSkip that propagates the failure to read the line as a delta
LineSkipFails(c) ==
    /\ pc[c] = "lines"
    /\ event_lines[c] # <<>>
    /\ LineEffect(Head(event_lines[c])).kind = "skip"
    /\ pc' = [pc EXCEPT ![c] = "aborted"]
    /\ result' = [result EXCEPT ![c] = Err(<<"Parse error: ", "serde_json::Error">>)]
    /\ UNCHANGED << fetch, extract, call_profile, received, messages, request, httpRequests, response, stream, netErr,
                    buffer, event_lines, full_response, emit_result, sink >>

\* lines 142-156: any other line
LineSkip(c) ==
    /\ pc[c] = "lines"
    /\ event_lines[c] # <<>>
    /\ LineEffect(Head(event_lines[c])).kind = "skip"
    /\ event_lines' = [event_lines EXCEPT ![c] = Tail(@)]
    /\ UNCHANGED << fetch, extract, call_profile, received, pc, messages, request, httpRequests, response, stream, netErr,
                    buffer, full_response, emit_result, sink, result >>

\* EndEvent of a loop that extracts one event for each chunk (if let in
\* place of while let)
EndEventToRead(c) ==
    /\ pc[c] = "lines"
    /\ event_lines[c] = <<>>
    /\ pc' = [pc EXCEPT ![c] = "read"]
    /\ UNCHANGED << fetch, extract, call_profile, received, messages, request, httpRequests, response, stream, netErr,
                    buffer, event_lines, full_response, emit_result, sink, result >>

\* lines 142, 157: the lines of the event are exhausted
EndEvent(c) ==
    /\ pc[c] = "lines"
    /\ event_lines[c] = <<>>
    /\ pc' = [pc EXCEPT ![c] = "extract"]
    /\ UNCHANGED << fetch, extract, call_profile, received, messages, request, httpRequests, response, stream, netErr,
                    buffer, event_lines, full_response, emit_result, sink, result >>

Next ==
    \E c \in Calls :
        \/ \E msgs \in MessageLists : Call(c, msgs)
        \/ FailNoProfile(c)
        \/ \E profile \in Profiles : FailHeader(c, profile)
        \/ \E profile \in Profiles : SendRequest(c, profile)
        \/ SendFailed(c)
        \/ \E resp \in Responses : ReceiveResponse(c, resp)
        \/ StatusError(c)
        \/ StatusOk(c)
        \/ NetBreak(c)
        \/ \E n \in ChunkSizes : ReadChunk(c, n)
        \/ ReadError(c)
        \/ ReadEof(c)
        \/ ExtractEvent(c)
        \/ NoEvent(c)
        \/ LineDone(c)
        \/ \E emitted \in {"Ok", "Err"} : LineDelta(c, emitted)
        \/ LineSkip(c)
        \/ EndEvent(c)

Spec == Init /\ [][Next]_vars

(***************************************************************************)
(* Two calls of stream_chat_completion in progress at once.  Each call is  *)
(* a future of its own: buffer and full_response are locals (lines         *)
(* 129-130), the app handle is shared.  Both calls have their response     *)
(* headers; their chunks arrive, and their steps run, in any order.        *)
(***************************************************************************)
PairCalls == {"A", "B"}

\* a delta and [DONE]; a comment line and a delta, ended by end of stream
PairBodies ==
    { EvHello \o Delimiter \o EvDone \o Delimiter,
      <<":", "\n">> \o EvWorld \o Delimiter }

InitPair ==
    /\ pc = [c \in PairCalls |-> "status"]
    /\ messages = [c \in PairCalls |-> <<>>]
    /\ request = [c \in PairCalls |-> NoRequest]
    /\ httpRequests = [c \in PairCalls |-> 1]
    /\ \E bodies \in [PairCalls -> PairBodies] :
           response = [c \in PairCalls |->
                          [status |-> 200, body |-> bodies[c], readable |-> TRUE]]
    /\ stream = [c \in PairCalls |-> <<>>]
    /\ netErr = [c \in PairCalls |-> FALSE]
    /\ buffer = [c \in PairCalls |-> <<>>]
    /\ received = [c \in PairCalls |-> <<>>]
    /\ event_lines = [c \in PairCalls |-> <<>>]
    /\ full_response = [c \in PairCalls |-> <<>>]
    /\ emit_result = [c \in PairCalls |-> "none"]
    /\ sink = <<>>
    /\ result = [c \in PairCalls |-> NoResult]
    /\ call_profile = [c \in PairCalls |-> None]
    /\ fetch = NoFetch
    /\ extract = NoExtract

NextPair ==
    \E c \in PairCalls :
        \/ StatusOk(c)
        \/ NetBreak(c)
        \/ \E n \in ChunkSizes : ReadChunk(c, n)
        \/ ReadError(c)
        \/ ReadEof(c)
        \/ ExtractEvent(c)
        \/ NoEvent(c)
        \/ LineDone(c)
        \/ \E emitted \in {"Ok", "Err"} : LineDelta(c, emitted)
        \/ LineSkip(c)
        \/ EndEvent(c)

SpecPair == InitPair /\ [][NextPair]_vars

(***************************************************************************)
(* The streaming loop of one call on its own, lines 128-161: the call has  *)
(* its response headers.  StreamBodies end with an event that no delimiter *)
(* follows, with a [DONE] that no delimiter follows, with [DONE], or hold  *)
(* lines to skip.                                                          *)
(***************************************************************************)
StreamBodies ==
    { EvHello \o Delimiter \o EvWorld,
      EvHello \o Delimiter \o EvDone \o <<"\n">>,
      HelloWorldBody \o EvHello \o Delimiter,
      EvMalformed \o Delimiter \o EvMixed \o Delimiter }

InitStream ==
    /\ pc = [c \in Calls |-> "status"]
    /\ messages = [c \in Calls |-> <<>>]
    /\ call_profile = [c \in Calls |-> None]
    /\ request = [c \in Calls |-> NoRequest]
    /\ httpRequests = [c \in Calls |-> 1]
    /\ \E bodies \in [Calls -> StreamBodies] :
           response = [c \in Calls |->
                          [status |-> 200, body |-> bodies[c], readable |-> TRUE]]
    /\ stream = [c \in Calls |-> <<>>]
    /\ netErr = [c \in Calls |-> FALSE]
    /\ buffer = [c \in Calls |-> <<>>]
    /\ received = [c \in Calls |-> <<>>]
    /\ event_lines = [c \in Calls |-> <<>>]
    /\ full_response = [c \in Calls |-> <<>>]
    /\ emit_result = [c \in Calls |-> "none"]
    /\ sink = <<>>
    /\ result = [c \in Calls |-> NoResult]
    /\ fetch = NoFetch
    /\ extract = NoExtract

\* stream.next().await returns: a chunk, an error or the end of the stream
Read(c) ==
    \/ \E n \in ChunkSizes : ReadChunk(c, n)
    \/ ReadError(c)
    \/ ReadEof(c)

\* the steps of the call between two reads
Process(c) ==
    \/ StatusOk(c)
    \/ ExtractEvent(c)
    \/ NoEvent(c)
    \/ LineDone(c)
    \/ \E emitted \in {"Ok", "Err"} : LineDelta(c, emitted)
    \/ LineSkip(c)
    \/ EndEvent(c)

NextStream ==
    \E c \in Calls :
        \/ StatusOk(c)
        \/ NetBreak(c)
        \/ \E n \in ChunkSizes : ReadChunk(c, n)
        \/ ReadError(c)
        \/ ReadEof(c)
        \/ ExtractEvent(c)
        \/ NoEvent(c)
        \/ LineDone(c)
        \/ \E emitted \in {"Ok", "Err"} : LineDelta(c, emitted)
        \/ LineSkip(c)
        \/ EndEvent(c)

SpecStream == InitStream /\ [][NextStream]_vars

\* every read the call waits for returns, and the call goes on running:
\* the executor polls the future until it is ready
FairStream == \A c \in Calls : WF_vars(Read(c)) /\ WF_vars(Process(c))

SpecStreamFair == SpecStream /\ FairStream

(***************************************************************************)
(* fetch_models, lines 198-246.                                            *)
(***************************************************************************)
\* "/models" (lines 205, 207)
ModelsPath == <<"/", "m", "o", "d", "e", "l", "s">>

\* str::replace: every occurrence of from, left to right, none overlapping
RECURSIVE Replace(_, _, _)
Replace(s, from, to) ==
    LET i == Find(s, from)
    IN  IF i = 0 THEN s
        ELSE SubSeq(s, 1, i - 1) \o to
             \o Replace(SubSeq(s, i + Len(from), Len(s)), from, to)

\* str::trim_end_matches(char): all the trailing occurrences are removed
TrimEndMatches(s, ch) ==
    LET kept == {i \in 1..Len(s) : s[i] # ch}
    IN  SubSeq(s, 1, IF kept = {} THEN 0 ELSE CHOOSE i \in kept : \A j \in kept : j <= i)

\* lines 204-208
ModelsUrl(base_url) ==
    IF EndsWith(base_url, ChatPath)
    THEN Replace(base_url, ChatPath, ModelsPath)
    ELSE TrimEndMatches(base_url, "/") \o ModelsPath

\* FetchHeaders that sends the Authorization header whatever the key
FetchHeadersAlwaysAuth(profile) ==
    LET h0 == [n \in {"content-type"} |-> <<"application/json">>]
        h1 == Insert(h0, "authorization", BearerPrefix \o profile.api_key)
    IN  IF profile.provider = "OpenRouter"
        THEN Insert(Insert(h1, "HTTP-Referer", <<"https://mini-ai-1c.local">>),
                    "X-Title", <<"Mini AI 1C Agent">>)
        ELSE h1

\* lines 213-224, given that the Authorization value is valid
FetchHeaders(profile) ==
    LET h0 == [n \in {"content-type"} |-> <<"application/json">>]
        h1 == IF profile.api_key # <<>>
              THEN Insert(h0, "authorization", BearerPrefix \o profile.api_key)
              ELSE h0
    IN  IF profile.provider = "OpenRouter"
        THEN Insert(Insert(h1, "HTTP-Referer", <<"https://mini-ai-1c.local">>),
                    "X-Title", <<"Mini AI 1C Agent">>)
        ELSE h1

\* serde_json::Value
JNull == [type |-> "null"]
JNumber(n) == [type |-> "number", num |-> n]
JString(s) == [type |-> "string", str |-> s]
JArray(items) == [type |-> "array", items |-> items]
JObject(fields) == [type |-> "object", fields |-> fields]
\* a response body that is no JSON
NotJson == [type |-> "invalid"]

\* Value::get with a string index, Value::as_array, Value::as_str
Get(v, key) ==
    IF v.type = "object" /\ key \in DOMAIN v.fields THEN Some(v.fields[key]) ELSE None
as_array(v) == IF v.type = "array" THEN Some(v.items) ELSE None
as_str(v) == IF v.type = "string" THEN Some(v.str) ELSE None

\* the byte of a character of a model id
Byte(ch) ==
    CASE ch = "-" -> 45
      [] ch = "." -> 46
      [] ch = "3" -> 51
      [] ch = "4" -> 52
      [] ch = "5" -> 53
      [] ch = "g" -> 103
      [] ch = "p" -> 112
      [] ch = "t" -> 116

\* Ord for String: the order of the bytes, a proper prefix comes first
LexLess(a, b) ==
    \E i \in 1..(Len(a) + 1) :
        /\ \A j \in 1..(i - 1) : j <= Len(b) /\ a[j] = b[j]
        /\ i <= Len(b)
        /\ (i = Len(a) + 1 \/ Byte(a[i]) < Byte(b[i]))

\* Vec::sort
RECURSIVE Sort(_)
Sort(v) ==
    IF v = <<>> THEN <<>>
    ELSE LET rest == Sort(Tail(v))
             before == SelectSeq(rest, LAMBDA x : ~LexLess(Head(v), x))
             after == SelectSeq(rest, LAMBDA x : LexLess(Head(v), x))
         IN  before \o <<Head(v)>> \o after

\* lines 235-242: the string ids of the items of the data list, in order
ModelIds(data) ==
    LET d == Get(data, "data")
        list == IF d.some THEN as_array(d.val) ELSE None
        id(item) == IF Get(item, "id").some THEN as_str(Get(item, "id").val) ELSE None
    IN  IF ~list.some THEN <<>>
        ELSE LET ids == [i \in 1..Len(list.val) |-> id(list.val[i])]
                 found == SelectSeq(ids, LAMBDA o : o.some)
             IN  [i \in 1..Len(found) |-> found[i].val]

\* ModelsOf that drops the ids it has already seen
ModelsOfDeduplicated(data) ==
    LET ids == ModelIds(data)
        first == SelectSeq([i \in 1..Len(ids) |->
                               IF \E j \in 1..(i - 1) : ids[j] = ids[i]
                               THEN None ELSE Some(ids[i])],
                           LAMBDA o : o.some)
    IN  Sort([i \in 1..Len(first) |-> first[i].val])

\* lines 235-245
ModelsOf(data) ==
    Sort(ModelIds(data))

\* the base URLs of a profile: with and without trailing slashes, ending
\* with the chat path, holding the chat path twice
Host == <<"h">>
V1 == <<"/", "v", "1">>
BaseUrls ==
    { Host \o V1,
      Host \o V1 \o <<"/">>,
      Host \o V1 \o <<"/", "/">>,
      Host \o V1 \o ChatPath,
      Host \o ChatPath \o V1 \o ChatPath,
      Host \o ChatPath \o <<"/">> }

\* the profiles fetch_models is called with
FetchProfiles ==
    [ provider : {"OpenAI", "OpenRouter"},
      api_key : ApiKeys,
      base_url : BaseUrls,
      model : { <<"m">> },
      temperature : { <<"0", ".", "7">> },
      max_tokens : { 4096 } ]

\* the items of a data list: two models, an item with no id, an item whose
\* id is no string, an item that is no object
Gpt4 == <<"g", "p", "t", "-", "4">>
Gpt35 == <<"g", "p", "t", "-", "3", ".", "5">>
Items ==
    { JObject("id" :> JString(Gpt4)),
      JObject("id" :> JString(Gpt35)),
      JObject("bad" :> JNumber(1)),
      JObject("id" :> JNumber(7)),
      JString(Gpt4) }

RECURSIVE ItemLists(_)
ItemLists(n) ==
    IF n = 0 THEN { <<>> }
    ELSE ItemLists(n - 1) \cup { Append(l, i) : l \in ItemLists(n - 1), i \in Items }

\* the JSON of a response: a data list, a data that is no list, no data,
\* no object
JsonBodies ==
    { JObject("data" :> JArray(l)) : l \in ItemLists(MaxModels) }
    \cup { JObject("data" :> JString(Gpt4)),
           JObject("error" :> JString(Gpt4)),
           JArray(<<JObject("id" :> JString(Gpt4))>>),
           JNull }

FetchResponses ==
    [status : {s \in Statuses : IsSuccess(s)}, json : JsonBodies \cup {NotJson}]
    \cup [status : {s \in Statuses : ~IsSuccess(s)}, json : {JNull}]

\* lines 210-226: an Authorization value that is no header value makes the
\* builder fail, and send() returns its error; no request is sent
FetchBuilderError(profile) ==
    /\ fetch.pc = "idle"
    /\ profile.api_key # <<>>
    /\ HeaderValueFromStr(BearerPrefix \o profile.api_key).tag = "Err"
    /\ fetch' = [fetch EXCEPT !.pc = "failed",
                              !.profile = Some(profile),
                              !.result = Err(<<"builder error">>)]
    /\ UNCHANGED << pc, messages, call_profile, request, httpRequests, response,
                    stream, netErr, buffer, received, event_lines, full_response,
                    emit_result, sink, result, extract >>

\* lines 198-226: the request is built and sent
FetchSend(profile) ==
    /\ fetch.pc = "idle"
    /\ profile.api_key # <<>> =>
           HeaderValueFromStr(BearerPrefix \o profile.api_key).tag = "Ok"
    /\ fetch' = [fetch EXCEPT !.pc = "sending",
                              !.profile = Some(profile),
                              !.request = [ sent |-> TRUE,
                                            method |-> "GET",
                                            url |-> ModelsUrl(profile.base_url),
                                            headers |-> FetchHeaders(profile) ]]
    /\ UNCHANGED << pc, messages, call_profile, request, httpRequests, response,
                    stream, netErr, buffer, received, event_lines, full_response,
                    emit_result, sink, result, extract >>

\* line 226: send() fails
FetchSendFailed ==
    /\ fetch.pc = "sending"
    /\ fetch' = [fetch EXCEPT !.pc = "failed",
                              !.profile = None,
                              !.request = NoRequest,
                              !.result = Err(<<"reqwest::Error">>)]
    /\ UNCHANGED << pc, messages, call_profile, request, httpRequests, response,
                    stream, netErr, buffer, received, event_lines, full_response,
                    emit_result, sink, result, extract >>

\* line 226: send() returns the response the server gave
FetchReceive(resp) ==
    /\ fetch.pc = "sending"
    /\ fetch' = [fetch EXCEPT !.pc = "status",
                              !.profile = None,
                              !.request = NoRequest,
                              !.response = resp]
    /\ UNCHANGED << pc, messages, call_profile, request, httpRequests, response,
                    stream, netErr, buffer, received, event_lines, full_response,
                    emit_result, sink, result, extract >>

\* lines 228-230: a status that is no success
FetchStatusError ==
    /\ fetch.pc = "status"
    /\ ~IsSuccess(fetch.response.status)
    /\ fetch' = [fetch EXCEPT !.pc = "failed",
                              !.result = Err(<<"Failed to fetch models: ",
                                               StatusText(fetch.response.status)>>)]
    /\ UNCHANGED << pc, messages, call_profile, request, httpRequests, response,
                    stream, netErr, buffer, received, event_lines, full_response,
                    emit_result, sink, result, extract >>

\* line 232: the body is no JSON
FetchJsonError ==
    /\ fetch.pc = "status"
    /\ IsSuccess(fetch.response.status)
    /\ fetch.response.json = NotJson
    /\ fetch' = [fetch EXCEPT !.pc = "failed",
                              !.result = Err(<<"error decoding response body">>)]
    /\ UNCHANGED << pc, messages, call_profile, request, httpRequests, response,
                    stream, netErr, buffer, received, event_lines, full_response,
                    emit_result, sink, result, extract >>

\* lines 232-245: the ids of the models, sorted
FetchOk ==
    /\ fetch.pc = "status"
    /\ IsSuccess(fetch.response.status)
    /\ fetch.response.json # NotJson
    /\ fetch' = [fetch EXCEPT !.pc = "done",
                              !.result = Ok(ModelsOf(fetch.response.json))]
    /\ UNCHANGED << pc, messages, call_profile, request, httpRequests, response,
                    stream, netErr, buffer, received, event_lines, full_response,
                    emit_result, sink, result, extract >>

\* the responses that end stream_chat_completion at the status check
ErrorResponses == {r \in Responses : ~IsSuccess(r.status)}

\* the requests of the module: stream_chat_completion up to the status
\* check, and fetch_models
NextRequests ==
    \/ \E c \in Calls :
           \/ \E msgs \in MessageLists : Call(c, msgs)
           \/ FailNoProfile(c)
           \/ \E profile \in Profiles : FailHeader(c, profile)
           \/ \E profile \in Profiles : SendRequest(c, profile)
           \/ SendFailed(c)
           \/ \E resp \in ErrorResponses : ReceiveResponse(c, resp)
           \/ StatusError(c)
    \/ \E profile \in FetchProfiles : FetchBuilderError(profile)
    \/ \E profile \in FetchProfiles : FetchSend(profile)
    \/ FetchSendFailed
    \/ \E resp \in FetchResponses : FetchReceive(resp)
    \/ FetchStatusError
    \/ FetchJsonError
    \/ FetchOk

SpecRequests == Init /\ [][NextRequests]_vars

(***************************************************************************)
(* extract_bsl_code, lines 165-194.  Positions are byte offsets from 0, as *)
(* in the source; text[a..b] is SubSeq(text, a + 1, b).                    *)
(***************************************************************************)
\* "```bsl" (line 169), "```1c" (line 182), "```" (lines 171, 184); the
\* character ` is written "U+0060"
FenceBsl == <<"U+0060", "U+0060", "U+0060", "b", "s", "l">>
Fence1c == <<"U+0060", "U+0060", "U+0060", "1", "c">>
Fence == <<"U+0060", "U+0060", "U+0060">>

\* text[from..]
SliceFrom(text, from) == SubSeq(text, from + 1, Len(text))

\* str::find on text[from..]: the offset of the first occurrence, or None
FindFrom(text, from, pat) ==
    LET i == Find(SliceFrom(text, from), pat)
    IN  IF i = 0 THEN None ELSE Some(i - 1)

\* str::trim
Trim(s) ==
    LET kept == {i \in 1..Len(s) : s[i] \notin {" ", "\n", "\r", "\t"}}
    IN  IF kept = {} THEN <<>>
        ELSE SubSeq(s, CHOOSE i \in kept : \A j \in kept : i <= j,
                       CHOOSE i \in kept : \A j \in kept : j <= i)

\* the texts: up to MaxPieces pieces, each a fence or plain text
Pieces == { FenceBsl, Fence1c, Fence, <<"\n", "A", "\n">>, <<"B">> }

RECURSIVE TextsOfLen(_)
TextsOfLen(n) ==
    IF n = 0 THEN { <<>> }
    ELSE { t \o piece : t \in TextsOfLen(n - 1), piece \in Pieces }

\* longer texts: a bsl block, plain text, a 1c block; a 1c block before a
\* bsl block; a 1c block, a bsl block, an opening bsl fence with no closing
\* fence; the same bsl block twice
ExtraTexts ==
    { FenceBsl \o <<"\n", "A", "\n">> \o Fence \o <<"\n", "B", "\n">>
          \o Fence1c \o <<"\n", "B", "\n">> \o Fence,
      Fence1c \o <<"B">> \o Fence \o <<" ">> \o FenceBsl \o <<"\n", "A", "\n">> \o Fence,
      Fence1c \o <<"B">> \o Fence \o <<" ">> \o FenceBsl \o <<"\n", "A", "\n">> \o Fence
          \o <<" ">> \o FenceBsl \o <<"B">>,
      FenceBsl \o <<"\n", "A", "\n">> \o Fence \o <<" ">>
          \o FenceBsl \o <<"\n", "A", "\n">> \o Fence }

Texts == UNION { TextsOfLen(n) : n \in 0..MaxPieces } \cup ExtraTexts

\* lines 165-167: the call
ExtractCall(text) ==
    /\ extract.pc = "idle"
    /\ extract' = [pc |-> "bsl", text |-> text, blocks |-> <<>>, start_pos |-> 0]
    /\ UNCHANGED << pc, messages, call_profile, request, httpRequests, response,
                    stream, netErr, buffer, received, event_lines, full_response,
                    emit_result, sink, result, fetch >>

\* lines 169-174: a ```bsl fence and a closing fence after it
BslBlock ==
    /\ extract.pc = "bsl"
    /\ LET start == FindFrom(extract.text, extract.start_pos, FenceBsl)
       IN  /\ start.some
           /\ LET actual_start == extract.start_pos + start.val + 6
                  end == FindFrom(extract.text, actual_start, Fence)
              IN  /\ end.some
                  /\ LET code == SubSeq(extract.text, actual_start + 1,
                                        actual_start + end.val)
                     IN  extract' = [extract EXCEPT
                                        !.blocks = Append(@, Trim(code)),
                                        !.start_pos = actual_start + end.val + 3]
    /\ UNCHANGED << pc, messages, call_profile, request, httpRequests, response,
                    stream, netErr, buffer, received, event_lines, full_response,
                    emit_result, sink, result, fetch >>

\* BslUnterminated that pushes the rest of the text as a block
BslUnterminatedEmitsRest ==
    /\ extract.pc = "bsl"
    /\ LET start == FindFrom(extract.text, extract.start_pos, FenceBsl)
       IN  /\ start.some
           /\ LET actual_start == extract.start_pos + start.val + 6
              IN  /\ ~FindFrom(extract.text, actual_start, Fence).some
                  /\ extract' = [extract EXCEPT
                                    !.blocks = Append(@, Trim(SliceFrom(extract.text,
                                                                        actual_start))),
                                    !.pc = "1c", !.start_pos = 0]
    /\ UNCHANGED << pc, messages, call_profile, request, httpRequests, response,
                    stream, netErr, buffer, received, event_lines, full_response,
                    emit_result, sink, result, fetch >>

\* lines 169-171, 175-177, 181: a ```bsl fence with no closing fence after
\* it: break, and the ```1c pass starts at 0
BslUnterminated ==
    /\ extract.pc = "bsl"
    /\ LET start == FindFrom(extract.text, extract.start_pos, FenceBsl)
       IN  /\ start.some
           /\ LET actual_start == extract.start_pos + start.val + 6
              IN  ~FindFrom(extract.text, actual_start, Fence).some
    /\ extract' = [extract EXCEPT !.pc = "1c", !.start_pos = 0]
    /\ UNCHANGED << pc, messages, call_profile, request, httpRequests, response,
                    stream, netErr, buffer, received, event_lines, full_response,
                    emit_result, sink, result, fetch >>

\* BslNoMore that lets the ```1c pass go on from where the ```bsl pass ended
BslNoMoreKeepsPosition ==
    /\ extract.pc = "bsl"
    /\ ~FindFrom(extract.text, extract.start_pos, FenceBsl).some
    /\ extract' = [extract EXCEPT !.pc = "1c"]
    /\ UNCHANGED << pc, messages, call_profile, request, httpRequests, response,
                    stream, netErr, buffer, received, event_lines, full_response,
                    emit_result, sink, result, fetch >>

\* lines 169, 181: no ```bsl fence is left, and the ```1c pass starts at 0
BslNoMore ==
    /\ extract.pc = "bsl"
    /\ ~FindFrom(extract.text, extract.start_pos, FenceBsl).some
    /\ extract' = [extract EXCEPT !.pc = "1c", !.start_pos = 0]
    /\ UNCHANGED << pc, messages, call_profile, request, httpRequests, response,
                    stream, netErr, buffer, received, event_lines, full_response,
                    emit_result, sink, result, fetch >>

\* lines 182-187: a ```1c fence and a closing fence after it
OneCBlock ==
    /\ extract.pc = "1c"
    /\ LET start == FindFrom(extract.text, extract.start_pos, Fence1c)
       IN  /\ start.some
           /\ LET actual_start == extract.start_pos + start.val + 5
                  end == FindFrom(extract.text, actual_start, Fence)
              IN  /\ end.some
                  /\ LET code == SubSeq(extract.text, actual_start + 1,
                                        actual_start + end.val)
                     IN  extract' = [extract EXCEPT
                                        !.blocks = Append(@, Trim(code)),
                                        !.start_pos = actual_start + end.val + 3]
    /\ UNCHANGED << pc, messages, call_profile, request, httpRequests, response,
                    stream, netErr, buffer, received, event_lines, full_response,
                    emit_result, sink, result, fetch >>

\* lines 182-184, 188-190, 193: a ```1c fence with no closing fence after
\* it: break, and the blocks are returned
OneCUnterminated ==
    /\ extract.pc = "1c"
    /\ LET start == FindFrom(extract.text, extract.start_pos, Fence1c)
       IN  /\ start.some
           /\ LET actual_start == extract.start_pos + start.val + 5
              IN  ~FindFrom(extract.text, actual_start, Fence).some
    /\ extract' = [extract EXCEPT !.pc = "done"]
    /\ UNCHANGED << pc, messages, call_profile, request, httpRequests, response,
                    stream, netErr, buffer, received, event_lines, full_response,
                    emit_result, sink, result, fetch >>

\* lines 182, 193: no ```1c fence is left, and the blocks are returned
OneCNoMore ==
    /\ extract.pc = "1c"
    /\ ~FindFrom(extract.text, extract.start_pos, Fence1c).some
    /\ extract' = [extract EXCEPT !.pc = "done"]
    /\ UNCHANGED << pc, messages, call_profile, request, httpRequests, response,
                    stream, netErr, buffer, received, event_lines, full_response,
                    emit_result, sink, result, fetch >>

NextExtract ==
    \/ \E text \in Texts : ExtractCall(text)
    \/ BslBlock
    \/ BslUnterminated
    \/ BslNoMore
    \/ OneCBlock
    \/ OneCUnterminated
    \/ OneCNoMore

SpecExtract == Init /\ [][NextExtract]_vars

(***************************************************************************)
(* Reference semantics of a response text, used to state the properties:   *)
(* the events of the text in order, their lines in order, folded up to     *)
(* the first [DONE].                                                       *)
(***************************************************************************)
RECURSIVE Flatten(_)
Flatten(ss) == IF ss = <<>> THEN <<>> ELSE Head(ss) \o Flatten(Tail(ss))

\* the complete events of a text: the pieces ended by a delimiter
RECURSIVE SplitEvents(_)
SplitEvents(text) ==
    LET i == Find(text, Delimiter)
    IN  IF i = 0 THEN <<>>
        ELSE <<SubSeq(text, 1, i - 1)>> \o SplitEvents(SubSeq(text, i + 2, Len(text)))

\* the lines of all complete events of a text
AllLines(text) ==
    LET evs == SplitEvents(text)
    IN  Flatten([i \in 1..Len(evs) |-> Lines(evs[i])])

RECURSIVE Fold(_, _)
Fold(ls, acc) ==
    IF ls = <<>> \/ acc.done THEN acc
    ELSE LET e == LineEffect(Head(ls))
         IN  Fold(Tail(ls),
                  IF e.kind = "done" THEN [acc EXCEPT !.done = TRUE]
                  ELSE IF e.kind = "delta"
                       THEN [acc EXCEPT !.text = @ \o e.val, !.notes = Append(@, e.val)]
                  ELSE acc)

\* what a sequence of lines amounts to: whether [DONE] was among them, the
\* text and the notifications up to it
RunLines(ls) == Fold(ls, [done |-> FALSE, text |-> <<>>, notes |-> <<>>])

Run(text) == RunLines(AllLines(text))

\* the call on a body that arrives in one chunk
WholeRun(body) == Run(from_utf8_lossy(body))

\* the payloads the call c has emitted, in order
SinkOf(c) ==
    LET mine == SelectSeq(sink, LAMBDA e : e.call = c)
    IN  [i \in 1..Len(mine) |-> mine[i].payload]

\* the part of the received text that has left the buffer
Processed(c) == SubSeq(received[c], 1, Len(received[c]) - Len(buffer[c]))

\* the call is between two events, or has returned from the streaming loop
BetweenEvents(c) == pc[c] \in {"read", "extract", "done", "aborted"}

(***************************************************************************)
(* C1                                                                      *)
(***************************************************************************)
\* C1: whatever the cuts of the body into network chunks, a call that
\* returns returns the text, and has emitted the notifications, of the
\* same body arriving in one chunk.
C1_ChunkBoundaryIndependence ==
    \A c \in Calls :
        pc[c] = "done" =>
            /\ result[c] = Ok(WholeRun(response[c].body).text)
            /\ SinkOf(c) = WholeRun(response[c].body).notes

(***************************************************************************)
(* C2                                                                      *)
(***************************************************************************)
\* C2: the accumulator is the concatenation of the notifications emitted
\* so far; between two events both are the contents, in order, of the
\* lines of the events processed so far; a returned text is the
\* concatenation of the notifications; the events Hello, world, [DONE]
\* give "Hello world" and the two notifications Hello, world.
C2_AccumulatorIsSinkConcat ==
    \A c \in Calls :
        /\ full_response[c] = Flatten(SinkOf(c))
        /\ BetweenEvents(c) =>
               /\ Run(Processed(c)).text = full_response[c]
               /\ Run(Processed(c)).notes = SinkOf(c)
        /\ result[c].tag = "Ok" => result[c].val = Flatten(SinkOf(c))
        /\ (pc[c] = "done" /\ response[c].body = HelloWorldBody) =>
               /\ result[c] = Ok(<<"H", "e", "l", "l", "o", " ", "w", "o", "r", "l", "d">>)
               /\ SinkOf(c) = << <<"H", "e", "l", "l", "o">>, <<" ", "w", "o", "r", "l", "d">> >>

\* a call has returned at the [DONE] of the events Hello, world, [DONE]
C2_Witness ==
    \E c \in Calls :
        /\ pc[c] = "done"
        /\ response[c].body = HelloWorldBody
        /\ Len(SinkOf(c)) = 2
        /\ result[c].tag = "Ok"
        /\ Len(result[c].val) > Len(SinkOf(c)[1])

(***************************************************************************)
(* C3                                                                      *)
(***************************************************************************)
\* C3: the step that processes a data: [DONE] line returns Ok with the
\* text accumulated so far and emits nothing; once the call has
\* returned, no step changes its result, its accumulator or its
\* notifications, whatever is left in the event, the buffer or the network.
C3_DoneIsTerminal ==
    [][\A c \in Calls :
          /\ ( /\ pc[c] = "lines"
               /\ event_lines[c] # <<>>
               /\ StripPrefix(Head(event_lines[c]), DataPrefix) = Some(DoneToken) )
             => /\ pc'[c] = "done"
                /\ result'[c] = Ok(full_response[c])
                /\ SinkOf(c)' = SinkOf(c)
          /\ pc[c] = "done"
             => /\ pc'[c] = "done"
                /\ result'[c] = result[c]
                /\ full_response'[c] = full_response[c]
                /\ SinkOf(c)' = SinkOf(c)
      ]_vars

\* a call has returned at [DONE] with lines of the event, buffered text
\* and undelivered bytes left over, and the connection broke afterwards
C3_Witness ==
    \E c \in Calls :
        /\ pc[c] = "done"
        /\ result[c].tag = "Ok"
        /\ Len(event_lines[c]) >= 2
        /\ buffer[c] # <<>>
        /\ stream[c] # <<>>
        /\ netErr[c]

(***************************************************************************)
(* C4                                                                      *)
(***************************************************************************)
\* C4: a call whose stream was delivered to its end, with no read error
\* and no [DONE] among its events, has returned Ok with exactly the text
\* accumulated, which is the text of the events received.
C4_GracefulClose ==
    \A c \in Calls :
        ( /\ result[c] # NoResult
          /\ response[c].status \in 200..299
          /\ ~netErr[c]
          /\ stream[c] = <<>>
          /\ ~Run(received[c]).done )
        => /\ pc[c] = "done"
           /\ result[c] = Ok(full_response[c])
           /\ full_response[c] = Run(received[c]).text

\* a stream has ended without [DONE] after some text
C4_Witness ==
    \E c \in Calls :
        /\ pc[c] = "done"
        /\ ~netErr[c]
        /\ stream[c] = <<>>
        /\ ~Run(received[c]).done
        /\ result[c].tag = "Ok"
        /\ result[c].val # <<>>

(***************************************************************************)
(* C5                                                                      *)
(***************************************************************************)
\* C5: after a response whose status is no success the call is checking
\* the status or has failed; it has consumed no byte of the body, emitted
\* nothing and accumulated nothing; the failure carries the status and
\* the body, or the status and nothing after it if the body is unreadable.
C5_NonSuccessStatus ==
    \A c \in Calls :
        (response[c].status # 0 /\ response[c].status \notin 200..299) =>
            /\ pc[c] \in {"status", "failed"}
            /\ SinkOf(c) = <<>>
            /\ full_response[c] = <<>>
            /\ received[c] = <<>>
            /\ buffer[c] = <<>>
            /\ stream[c] = <<>>
            /\ pc[c] = "status" => result[c] = NoResult
            /\ pc[c] = "failed" =>
                   /\ result[c].tag = "Err"
                   /\ Find(result[c].val, <<StatusText(response[c].status)>>) # 0
                   /\ IF response[c].readable
                      THEN Find(result[c].val, from_utf8_lossy(response[c].body)) # 0
                      ELSE result[c].val =
                               <<"API error ", StatusText(response[c].status), ": ">>

\* a 401 with the body "unauthorized" has failed the call
C5_Witness ==
    \E c \in Calls :
        /\ pc[c] = "failed"
        /\ response[c].status = 401
        /\ response[c].readable
        /\ Find(result[c].val, <<"u", "n", "a", "u", "t", "h", "o", "r", "i", "z", "e", "d">>) # 0

(***************************************************************************)
(* C6                                                                      *)
(***************************************************************************)
\* C6: the step that follows a failed read aborts the call with a
\* "Stream error" failure that holds none of the text accumulated.
C6_ReadErrorDiscardsText ==
    [][\A c \in Calls :
          (pc[c] = "read" /\ netErr[c]) =>
              /\ pc'[c] = "aborted"
              /\ result'[c].tag = "Err"
              /\ Head(result'[c].val) = "Stream error: "
              /\ full_response[c] # <<>> => Find(result'[c].val, full_response[c]) = 0
              /\ \A i \in 1..Len(full_response[c]) :
                     Find(result'[c].val, <<full_response[c][i]>>) = 0
      ]_vars

\* a call was aborted after two fragments
C6_Witness ==
    \E c \in Calls :
        /\ pc[c] = "aborted"
        /\ Len(SinkOf(c)) >= 2
        /\ full_response[c] # <<>>
        /\ result[c].tag = "Err"

(***************************************************************************)
(* C7                                                                      *)
(***************************************************************************)
\* a data line whose payload is neither [DONE] nor a delta with a content
Malformed(line) ==
    /\ StartsWith(line, DataPrefix)
    /\ LineEffect(line).kind = "skip"

\* the lines of the complete events of a text, the malformed ones left out
WellFormedLines(text) == SelectSeq(AllLines(text), LAMBDA l : ~Malformed(l))

\* C7: between two events the accumulator and the notifications are those
\* of the lines processed so far with the malformed lines left out, and
\* a call whose stream has started fails of a read error only.
C7_MalformedLinesIgnored ==
    \A c \in Calls :
        /\ BetweenEvents(c) =>
               /\ RunLines(WellFormedLines(Processed(c))).text = full_response[c]
               /\ RunLines(WellFormedLines(Processed(c))).notes = SinkOf(c)
        /\ (result[c].tag = "Err" /\ response[c].status \in 200..299) => netErr[c]
        /\ pc[c] = "aborted" => netErr[c]

\* a call has returned text from a line that came after a malformed one
C7_Witness ==
    \E c \in Calls :
        /\ pc[c] = "done"
        /\ result[c].tag = "Ok"
        /\ LET ls == AllLines(Processed(c))
           IN  \E i, j \in 1..Len(ls) :
                   /\ i < j
                   /\ Malformed(ls[i])
                   /\ LineEffect(ls[j]).kind = "delta"
                   /\ ~RunLines(SubSeq(ls, 1, j)).done
                   /\ EndsWith(result[c].val, LineEffect(ls[j]).val)

(***************************************************************************)
(* C8                                                                      *)
(***************************************************************************)
\* C8: where the last emit of a call has failed, the fragment is in the
\* accumulator, the call has not failed of it, and the accumulator, the
\* notifications (each fragment once) and the returned text are those of
\* the lines processed, which no outcome of an emit enters.
C8_SinkFailureNonFatal ==
    \A c \in Calls :
        emit_result[c] = "Err" =>
            /\ SinkOf(c) # <<>>
            /\ EndsWith(full_response[c], SinkOf(c)[Len(SinkOf(c))])
            /\ full_response[c] = Flatten(SinkOf(c))
            /\ pc[c] # "failed"
            /\ pc[c] = "aborted" => netErr[c]
            /\ BetweenEvents(c) =>
                   /\ Run(Processed(c)).text = full_response[c]
                   /\ Run(Processed(c)).notes = SinkOf(c)
            /\ result[c].tag = "Ok" => result[c].val = Run(Processed(c)).text
            /\ result[c].tag = "Err" => Head(result[c].val) = "Stream error: "

\* a call has returned Ok after its last emit failed
C8_Witness ==
    \E c \in Calls :
        /\ pc[c] = "done"
        /\ emit_result[c] = "Err"
        /\ Len(SinkOf(c)) >= 2
        /\ result[c].tag = "Ok"
        /\ result[c].val # <<>>

(***************************************************************************)
(* C9                                                                      *)
(***************************************************************************)
\* C9: when the call waits for the next chunk, the buffer holds no two
\* consecutive newlines, and every complete event of the text received
\* has been extracted and processed, in order.
C9_NoDelimiterAtRead ==
    \A c \in Calls :
        pc[c] = "read" =>
            /\ \A i \in 1..Len(buffer[c]) :
                   ~(i < Len(buffer[c]) /\ buffer[c][i] = "\n" /\ buffer[c][i + 1] = "\n")
            /\ SplitEvents(received[c]) = SplitEvents(Processed(c))
            /\ Run(received[c]).text = full_response[c]
            /\ Run(received[c]).notes = SinkOf(c)

\* a call waits for a chunk after two events or more, with text buffered
C9_Witness ==
    \E c \in Calls :
        /\ pc[c] = "read"
        /\ Len(SplitEvents(received[c])) >= 2
        /\ buffer[c] # <<>>
        /\ SinkOf(c) # <<>>

(***************************************************************************)
(* C10                                                                     *)
(***************************************************************************)
\* the states of the call's state machine
Phase(p) ==
    CASE p = "idle" -> "Idle"
      [] p \in {"entered", "sending", "status"} -> "Requesting"
      [] p = "failed" -> "Failed"
      [] p \in {"read", "extract", "lines"} -> "Streaming"
      [] p = "done" -> "Done"
      [] p = "aborted" -> "Aborted"

PhaseTransitions ==
    { <<"Idle", "Requesting">>, <<"Requesting", "Failed">>, <<"Requesting", "Streaming">>,
      <<"Streaming", "Done">>, <<"Streaming", "Aborted">> }

\* C10: every step of a call stays in its state or takes a transition of
\* Idle -> Requesting -> (Failed | Streaming) -> (Done | Aborted); Failed,
\* Done and Aborted are left by no step; the call sends at most one
\* request, and only while Requesting; it has a result exactly in Failed,
\* Done and Aborted, Ok in Done and Err in the two others, and the result
\* never changes; it emits only while Streaming.
C10_Lifecycle ==
    [][\A c \in Calls :
          /\ Phase(pc[c]) # Phase(pc'[c]) =>
                 <<Phase(pc[c]), Phase(pc'[c])>> \in PhaseTransitions
          /\ Phase(pc[c]) \in {"Failed", "Done", "Aborted"} =>
                 /\ pc'[c] = pc[c]
                 /\ result'[c] = result[c]
                 /\ httpRequests'[c] = httpRequests[c]
                 /\ SinkOf(c)' = SinkOf(c)
          /\ httpRequests'[c] <= 1
          /\ httpRequests'[c] # httpRequests[c] =>
                 /\ httpRequests'[c] = httpRequests[c] + 1
                 /\ Phase(pc[c]) = "Requesting"
          /\ result[c] # NoResult => result'[c] = result[c]
          /\ result'[c] # NoResult <=> Phase(pc'[c]) \in {"Failed", "Done", "Aborted"}
          /\ Phase(pc'[c]) = "Done" => result'[c].tag = "Ok"
          /\ Phase(pc'[c]) \in {"Failed", "Aborted"} => result'[c].tag = "Err"
          /\ SinkOf(c)' # SinkOf(c) =>
                 /\ Phase(pc[c]) = "Streaming"
                 /\ Phase(pc'[c]) = "Streaming"
      ]_vars

\* a call has gone through Requesting and Streaming to Done
C10_Witness ==
    \E c \in Calls :
        /\ pc[c] = "done"
        /\ httpRequests[c] = 1
        /\ SinkOf(c) # <<>>
        /\ result[c].tag = "Ok"

(***************************************************************************)
(* C11                                                                     *)
(***************************************************************************)
\* C11: with two calls in progress and their chunks and steps interleaved
\* in any order, each call holds in its buffer only text of its own
\* response, its accumulator and its notifications are those of the part
\* of its own text processed so far, and a call that returns returns the
\* result, having emitted the notifications, of the same call alone.
C11_CallsAreIsolated ==
    \A c \in PairCalls :
        /\ pc[c] # "status" =>
               received[c] \o from_utf8_lossy(stream[c])
                   = from_utf8_lossy(response[c].body)
        /\ Len(buffer[c]) <= Len(received[c])
        /\ buffer[c] = SubSeq(received[c],
                              Len(received[c]) - Len(buffer[c]) + 1, Len(received[c]))
        /\ BetweenEvents(c) =>
               /\ Run(Processed(c)).text = full_response[c]
               /\ Run(Processed(c)).notes = SinkOf(c)
        /\ pc[c] = "done" =>
               /\ result[c] = Ok(WholeRun(response[c].body).text)
               /\ SinkOf(c) = WholeRun(response[c].body).notes
        /\ pc[c] = "aborted" =>
               result[c] = Err(<<"Stream error: ", "reqwest::Error">>)

\* two calls on different bodies have both returned, and the call B
\* emitted its notification before the call A emitted its own
C11_Witness ==
    /\ DOMAIN pc = PairCalls
    /\ pc["A"] = "done"
    /\ pc["B"] = "done"
    /\ response["A"].body # response["B"].body
    /\ Len(sink) = 2
    /\ sink[1].call = "B"
    /\ sink[2].call = "A"

(***************************************************************************)
(* C12                                                                     *)
(***************************************************************************)
\* C12: the step that sends the chat request, for a caller list of any
\* length n (the empty list and a list that holds system messages
\* included), sends a message list of length n + 1 whose first element is
\* the fixed system instruction with the role system and whose elements
\* 2..n+1 are the caller's messages, unchanged and in order; every chat
\* request in flight begins with that instruction and has stream set.
C12_OutboundMessages ==
    [][\A c \in Calls :
          /\ (pc[c] = "entered" /\ pc'[c] = "sending") =>
                 LET sent == request'[c].body.messages
                     n == Len(messages[c])
                 IN  /\ request'[c].sent
                     /\ Len(sent) = n + 1
                     /\ sent[1] = [role |-> "system", content |-> SYSTEM_PROMPT]
                     /\ \A i \in 1..n : sent[i + 1] = messages[c][i]
                     /\ request'[c].body.stream = TRUE
          /\ request'[c].sent =>
                 /\ request'[c].body.stream = TRUE
                 /\ request'[c].body.messages[1]
                        = [role |-> "system", content |-> SYSTEM_PROMPT]
      ]_vars

\* a chat request is in flight whose caller brought a system message of
\* its own: it follows the fixed instruction
C12_Witness ==
    \E c \in Calls :
        /\ pc[c] = "sending"
        /\ request[c].sent
        /\ Len(request[c].body.messages) = 3
        /\ request[c].body.messages[2] = [role |-> "system", content |-> <<"s">>]

(***************************************************************************)
(* C13                                                                     *)
(***************************************************************************)
\* the headers h are the ones required of a request made for the profile p
HeadersAsRequired(h, p) ==
    /\ "content-type" \in DOMAIN h
    /\ h["content-type"] = <<"application/json">>
    /\ "authorization" \in DOMAIN h <=> p.api_key # <<>>
    /\ p.api_key # <<>> =>
           h["authorization"] = <<"B", "e", "a", "r", "e", "r", " ">> \o p.api_key
    /\ "HTTP-Referer" \in DOMAIN h <=> p.provider = "OpenRouter"
    /\ "X-Title" \in DOMAIN h <=> p.provider = "OpenRouter"

\* C13: every chat request and every models request in flight carries
\* Content-Type application/json; an Authorization header if and only if
\* the API key of its profile is not empty, and then with the value
\* "Bearer " followed by the key; HTTP-Referer and X-Title if and only if
\* the provider is OpenRouter.  A call whose profile has an empty API key
\* does not fail for it: its request is sent.
C13_Headers ==
    /\ \A c \in Calls :
           /\ request[c].sent =>
                  /\ call_profile[c].some
                  /\ HeadersAsRequired(request[c].headers, call_profile[c].val)
           /\ (call_profile[c].some /\ call_profile[c].val.api_key = <<>>) =>
                  /\ pc[c] = "sending"
                  /\ request[c].sent
    /\ fetch.request.sent =>
           /\ fetch.profile.some
           /\ HeadersAsRequired(fetch.request.headers, fetch.profile.val)
    /\ (fetch.profile.some /\ fetch.profile.val.api_key = <<>>) =>
           /\ fetch.pc = "sending"
           /\ fetch.request.sent

\* a chat request for OpenRouter with a key and a models request for
\* OpenAI with an empty key are in flight
C13_Witness ==
    /\ fetch.request.sent
    /\ fetch.profile.val.api_key = <<>>
    /\ fetch.profile.val.provider = "OpenAI"
    /\ \E c \in Calls :
           /\ request[c].sent
           /\ call_profile[c].val.api_key # <<>>
           /\ call_profile[c].val.provider = "OpenRouter"
           /\ "authorization" \in DOMAIN request[c].headers

(***************************************************************************)
(* C14                                                                     *)
(***************************************************************************)
\* the key holds a character that no header value can hold
KeyInvalid(key) == \E i \in 1..Len(key) : key[i] \in {"\n", "\r"}

\* C14: a streaming call whose profile has a non-empty API key with a
\* character that is not valid in a header value has failed with the
\* header-encoding error, has sent no HTTP request and has emitted no
\* notification; no chat request is in flight for a profile with a
\* non-empty key without its Authorization header.
C14_InvalidKeyFails ==
    \A c \in Calls :
        /\ (call_profile[c].some /\ KeyInvalid(call_profile[c].val.api_key)) =>
               /\ pc[c] = "failed"
               /\ result[c] = Err(<<"failed to parse header value">>)
               /\ httpRequests[c] = 0
               /\ ~request[c].sent
               /\ SinkOf(c) = <<>>
        /\ (request[c].sent /\ call_profile[c].val.api_key # <<>>) =>
               /\ "authorization" \in DOMAIN request[c].headers
               /\ ~KeyInvalid(call_profile[c].val.api_key)

\* a call for OpenRouter has failed on a key that holds a line feed
C14_Witness ==
    \E c \in Calls :
        /\ pc[c] = "failed"
        /\ call_profile[c].some
        /\ KeyInvalid(call_profile[c].val.api_key)
        /\ call_profile[c].val.provider = "OpenRouter"
        /\ result[c].tag = "Err"

(***************************************************************************)
(* C15                                                                     *)
(***************************************************************************)
\* the text with its trailing slashes removed
WithoutTrailingSlashes(s) ==
    CHOOSE t \in {SubSeq(s, 1, n) : n \in 0..Len(s)} :
        /\ t = <<>> \/ t[Len(t)] # "/"
        /\ \A i \in (Len(t) + 1)..Len(s) : s[i] = "/"

\* C15: the URL of every models request in flight is, when the base URL
\* of its profile ends with /chat/completions, the base URL with that
\* trailing suffix alone replaced by /models, all before it unchanged;
\* and otherwise the base URL without its trailing slashes, followed by
\* /models.
C15_ModelsUrl ==
    fetch.request.sent =>
        LET base_url == fetch.profile.val.base_url
            suffix == <<"/", "c", "h", "a", "t", "/", "c", "o", "m", "p", "l", "e", "t", "i", "o", "n", "s">>
            models == <<"/", "m", "o", "d", "e", "l", "s">>
            cut == Len(base_url) - Len(suffix)
        IN  IF cut >= 0 /\ SubSeq(base_url, cut + 1, Len(base_url)) = suffix
            THEN fetch.request.url = SubSeq(base_url, 1, cut) \o models
            ELSE fetch.request.url = WithoutTrailingSlashes(base_url) \o models

(***************************************************************************)
(* C16                                                                     *)
(***************************************************************************)
\* the item is an object whose id is the string s
HasStringId(item, s) ==
    /\ item.type = "object"
    /\ "id" \in DOMAIN item.fields
    /\ item.fields["id"].type = "string"
    /\ item.fields["id"].str = s

\* C16: a fetch_models call that has returned from a success response
\* with JSON has returned Ok.  When the JSON is an object whose data is a
\* list, the result holds every string exactly as many times as list
\* items have it as their string id (items with no id or an id that is
\* no string count for nothing, duplicates are kept) and it ascends in
\* the lexicographic order; otherwise the result is empty.  The data
\* gpt-4, gpt-3.5, {bad: 1} give gpt-3.5, gpt-4.
C16_ModelsResult ==
    fetch.pc = "done" =>
        LET json == fetch.response.json
            models == fetch.result.val
            strings == {models[i] : i \in 1..Len(models)} \cup {Gpt4, Gpt35}
        IN  /\ fetch.result.tag = "Ok"
            /\ IF json.type = "object" /\ "data" \in DOMAIN json.fields
                  /\ json.fields["data"].type = "array"
               THEN LET items == json.fields["data"].items
                    IN  /\ \A s \in strings :
                               Cardinality({i \in 1..Len(models) : models[i] = s})
                                   = Cardinality({k \in 1..Len(items) : HasStringId(items[k], s)})
                        /\ \A i, j \in 1..Len(models) :
                               i < j => models[i] = models[j] \/ LexLess(models[i], models[j])
                        /\ \A i, j \in 1..Len(models) :
                               i < j => ~(models[i] = Gpt4 /\ models[j] = Gpt35)
               ELSE models = <<>>
            /\ json = JObject("data" :> JArray(<< JObject("id" :> JString(Gpt4)),
                                                  JObject("id" :> JString(Gpt35)),
                                                  JObject("bad" :> JNumber(1)) >>))
                   => models = <<Gpt35, Gpt4>>

\* a call has returned the models of a list that names gpt-4 twice, the
\* second time after gpt-3.5
C16_Witness ==
    /\ fetch.pc = "done"
    /\ fetch.response.json.type = "object"
    /\ "data" \in DOMAIN fetch.response.json.fields
    /\ fetch.response.json.fields["data"]
           = JArray(<< JObject("id" :> JString(Gpt4)),
                       JObject("id" :> JString(Gpt35)),
                       JObject("id" :> JString(Gpt4)) >>)
    /\ fetch.result = Ok(<<Gpt35, Gpt4, Gpt4>>)

(***************************************************************************)
(* C17                                                                     *)
(***************************************************************************)
\* the trimmed inner texts of the terminated regions of a tag, in order:
\* a region opens at the first occurrence of the tag and closes at the
\* first ``` after the tag, and the next one is looked for after that
RECURSIVE RegionsOf(_, _)
RegionsOf(text, tag) ==
    LET open == Find(text, tag)
        inner == SubSeq(text, open + Len(tag), Len(text))
        close == Find(inner, <<"U+0060", "U+0060", "U+0060">>)
    IN  IF open = 0 \/ close = 0 THEN <<>>
        ELSE <<Trim(SubSeq(inner, 1, close - 1))>>
             \o RegionsOf(SubSeq(inner, close + 3, Len(inner)), tag)

\* C17: extract_bsl_code returns the trimmed inner texts of all the
\* terminated ```bsl regions of the text in their order, followed by
\* those of all its terminated ```1c regions in their order, wherever the
\* two kinds stand in the text, the second pass starting at the beginning
\* of the text again, and with duplicates kept; a bsl block with A();,
\* text, a 1c block with B(); give A(); and B(); in that order.
C17_ExtractionOrder ==
    extract.pc = "done" =>
        /\ extract.blocks
               = RegionsOf(extract.text, <<"U+0060", "U+0060", "U+0060", "b", "s", "l">>)
                 \o RegionsOf(extract.text, <<"U+0060", "U+0060", "U+0060", "1", "c">>)
        /\ extract.text
               = FenceBsl \o <<"\n", "A", "\n">> \o Fence \o <<"\n", "B", "\n">>
                 \o Fence1c \o <<"\n", "B", "\n">> \o Fence
               => extract.blocks = << <<"A">>, <<"B">> >>

\* the call has returned the bsl block before the 1c block of a text
\* where the 1c block comes first
C17_Witness ==
    /\ extract.pc = "done"
    /\ extract.text
           = Fence1c \o <<"B">> \o Fence \o <<" ">> \o FenceBsl \o <<"\n", "A", "\n">> \o Fence
    /\ extract.blocks = << <<"A">>, <<"B">> >>

(***************************************************************************)
(* C18                                                                     *)
(***************************************************************************)
\* from the position of the scan on, the text has an opening fence of the
\* tag and no ``` after it
OpenUnterminated(e, tag) ==
    LET rest == SubSeq(e.text, e.start_pos + 1, Len(e.text))
        open == Find(rest, tag)
    IN  /\ open # 0
        /\ Find(SubSeq(rest, open + Len(tag), Len(rest)), <<"U+0060", "U+0060", "U+0060">>) = 0

\* the text is an opening fence of the tag and no ``` after it
OnlyUnterminated(text, tag) ==
    /\ Len(text) >= Len(tag)
    /\ SubSeq(text, 1, Len(tag)) = tag
    /\ Find(SubSeq(text, Len(tag) + 1, Len(text)), <<"U+0060", "U+0060", "U+0060">>) = 0

\* C18: when the ```bsl pass stands before an opening fence with no
\* closing fence marker after it, its next step ends the pass: it emits
\* nothing, keeps the blocks emitted so far, and starts the ```1c pass at
\* the beginning of the text; the same in the ```1c pass, whose end
\* returns the blocks.  The blocks returned end with the regions of the
\* ```1c pass, whatever ended the ```bsl pass, and a text that is only an
\* unterminated opening fence returns no block.
C18_UnterminatedFence ==
    [][/\ (extract.pc = "bsl"
           /\ OpenUnterminated(extract, <<"U+0060", "U+0060", "U+0060", "b", "s", "l">>)) =>
               /\ extract'.blocks = extract.blocks
               /\ extract'.pc = "1c"
               /\ extract'.start_pos = 0
       /\ (extract.pc = "1c"
           /\ OpenUnterminated(extract, <<"U+0060", "U+0060", "U+0060", "1", "c">>)) =>
               /\ extract'.blocks = extract.blocks
               /\ extract'.pc = "done"
       /\ extract'.pc = "done" =>
               LET last == RegionsOf(extract'.text, <<"U+0060", "U+0060", "U+0060", "1", "c">>)
                   n == Len(extract'.blocks)
               IN  /\ Len(last) <= n
                   /\ SubSeq(extract'.blocks, n - Len(last) + 1, n) = last
       /\ (extract'.pc = "done"
           /\ \/ OnlyUnterminated(extract'.text, <<"U+0060", "U+0060", "U+0060", "b", "s", "l">>)
              \/ OnlyUnterminated(extract'.text, <<"U+0060", "U+0060", "U+0060", "1", "c">>)) =>
               extract'.blocks = <<>>
      ]_vars

\* the call has returned from a text with a 1c block, a bsl block and
\* then an opening bsl fence that nothing closes: the two blocks
C18_Witness ==
    /\ extract.pc = "done"
    /\ extract.text
           = Fence1c \o <<"B">> \o Fence \o <<" ">> \o FenceBsl \o <<"\n", "A", "\n">> \o Fence
             \o <<" ">> \o FenceBsl \o <<"B">>
    /\ extract.blocks = << <<"A">>, <<"B">> >>

(***************************************************************************)
(* C19                                                                     *)
(***************************************************************************)
\* C19: a call that has returned at the end of the stream with text left
\* in its buffer has returned Ok with the text, and has emitted the
\* notifications, of the events that a delimiter ended: the text left,
\* which holds no delimiter, has added nothing.  An event Hello, and then
\* an event world or a line data: [DONE] that no delimiter follows, give
\* Hello and its one notification.
C19_TrailingDataDiscarded ==
    \A c \in Calls :
        (pc[c] = "done" /\ stream[c] = <<>> /\ buffer[c] # <<>>
         /\ ~Run(received[c]).done) =>
            /\ Find(buffer[c], Delimiter) = 0
            /\ result[c] = Ok(Run(Processed(c)).text)
            /\ SinkOf(c) = Run(Processed(c)).notes
            /\ result[c] = Ok(Flatten(SinkOf(c)))
            /\ response[c].body \in { EvHello \o Delimiter \o EvWorld,
                                      EvHello \o Delimiter \o EvDone \o <<"\n">> } =>
                   /\ result[c] = Ok(<<"H", "e", "l", "l", "o">>)
                   /\ SinkOf(c) = << <<"H", "e", "l", "l", "o">> >>

\* a call has returned at the end of a stream whose last event, a delta
\* that no delimiter follows, is left in the buffer
C19_Witness ==
    \E c \in Calls :
        /\ pc[c] = "done"
        /\ stream[c] = <<>>
        /\ response[c].body = EvHello \o Delimiter \o EvWorld
        /\ buffer[c] = EvWorld
        /\ result[c].tag = "Ok"

(***************************************************************************)
(* C20                                                                     *)
(***************************************************************************)
\* C20: when every read returns and the call keeps running, a call in its
\* streaming loop reaches done or aborted, and a reassembly pass that has
\* begun comes back to the read or ends the call.  The call ends only at
\* a processed data: [DONE] line, at the end of the stream, or at a read
\* error.  Every extraction takes at least the two characters of the
\* delimiter off the front of the buffer, and every line step takes a
\* line off the event.
C20_Termination ==
    /\ \A c \in Calls :
           pc[c] \in {"read", "extract", "lines"} ~> pc[c] \in {"done", "aborted"}
    /\ \A c \in Calls :
           pc[c] \in {"extract", "lines"} ~> pc[c] \in {"read", "done"}
    /\ [][\A c \in Calls :
             /\ (pc[c] \notin {"done", "aborted"} /\ pc'[c] \in {"done", "aborted"}) =>
                    \/ /\ pc'[c] = "done"
                       /\ pc[c] = "lines"
                       /\ Head(event_lines[c])
                              = <<"d", "a", "t", "a", ":", " ", "[", "D", "O", "N", "E", "]">>
                    \/ /\ pc'[c] = "done"
                       /\ pc[c] = "read"
                       /\ stream[c] = <<>>
                       /\ ~netErr[c]
                    \/ /\ pc'[c] = "aborted"
                       /\ pc[c] = "read"
                       /\ netErr[c]
             /\ (pc[c] = "extract" /\ pc'[c] = "lines") =>
                    /\ Len(buffer'[c]) + 2 <= Len(buffer[c])
                    /\ buffer'[c] = SubSeq(buffer[c],
                                           Len(buffer[c]) - Len(buffer'[c]) + 1,
                                           Len(buffer[c]))
             /\ (pc[c] = "lines" /\ pc'[c] = "lines") =>
                    Len(event_lines'[c]) < Len(event_lines[c])
       ]_vars

\* a call has ended at a processed [DONE] with bytes of the stream unread
C20_Witness ==
    \E c \in Calls :
        /\ pc[c] = "done"
        /\ stream[c] # <<>>
        /\ Run(received[c]).done
        /\ result[c].tag = "Ok"

====
